---- MODULE Spec2Model ----
(***************************************************************************)
(* Model of scripts/defect_prediction.py: the history-mining score         *)
(* (extract_file_change_history, calculate_bug_scores, generate_report),   *)
(* the simulated REPD scores (repd_defect_prediction) and the static       *)
(* analysis sweep (run_static_analysis).                                   *)
(*                                                                         *)
(* A Python dict is a sequence of entries [k |-> key, v |-> value] with    *)
(* distinct keys, in insertion order (dicts iterate in insertion order).   *)
(* A Python number is an int of any size or a float, an IEEE 754 double;   *)
(* sums, quotients, comparisons and the formatting of numbers are          *)
(* computed bit for bit as the interpreter computes them.                  *)
(***************************************************************************)
EXTENDS Integers, Sequences, FiniteSets, TLC

VARIABLES
    pc,                 \* position in the program
    commits,            \* the repository's commits: id -> [files, parents]
    heads,              \* the commits that refs (branch heads, tags) point at
    seen,               \* the commits repo.iter_commits('--all') has yielded
    commit,             \* the commit the outer loop is at, 0 before the first
    fi,                 \* inner loop: files of the commit already counted
    file_change_count,  \* the defaultdict(int) of extract_file_change_history
    bug_scores,         \* the score map handed to generate_report
    top_n,              \* generate_report's top_n
    output,             \* the lines generate_report printed, in order
    raised,             \* the exception that left the running function, or "None"
    repo_files,         \* repd_defect_prediction: the code files found
    repd_scores,        \* repd_defect_prediction: the dict of that name
    tree,               \* run_static_analysis: file names in os.walk order
    ti,                 \* run_static_analysis: files of tree already handled
    invocations,        \* the subprocess.run calls made, with their outcomes
    messages            \* the lines run_static_analysis printed

vars == <<pc, commits, heads, seen, commit, fi, file_change_count, bug_scores,
          top_n, output, raised, repo_files, repd_scores, tree, ti,
          invocations, messages>>

(***************************************************************************)
(* Bounds                                                                  *)
(***************************************************************************)
MaxCommits == 3      \* commits in the modelled repository
MaxCount == 2        \* largest raw count of a directly supplied map
MaxTopN == 3         \* largest top_n of a direct generate_report call
RandBits == 2        \* random.random() draws the multiples of 2^-RandBits
MaxTree == 3         \* files in the working tree of run_static_analysis

\* The file paths of the scoring model, in ascending (lexicographic) order.
Paths == <<"a.py", "b.py", "c.py">>
PathSet == {Paths[i] : i \in 1..Len(Paths)}
PathIndex(f) == CHOOSE i \in 1..Len(Paths) : Paths[i] = f
PathLess(f, g) == PathIndex(f) < PathIndex(g)

(***************************************************************************)
(* Numbers                                                                 *)
(***************************************************************************)
(***************************************************************************)
(* Natural numbers of any size: the sequence of their digits in base       *)
(* LimbBase, lowest first, without leading zeros; 0 is the empty sequence. *)
(***************************************************************************)
LimbBits == 15
LimbBase == 2 ^ LimbBits

Max(a, b) == IF a > b THEN a ELSE b
Min(a, b) == IF a < b THEN a ELSE b
Abs(x) == IF x < 0 THEN -x ELSE x

RECURSIVE Pow2(_)
Pow2(k) == IF k = 0 THEN 1 ELSE 2 * Pow2(k - 1)

RECURSIVE BigNorm(_)
BigNorm(a) ==
    IF a = <<>> THEN a
    ELSE IF a[Len(a)] = 0 THEN BigNorm(SubSeq(a, 1, Len(a) - 1))
    ELSE a

RECURSIVE BigFromInt(_)
BigFromInt(k) ==
    IF k = 0 THEN <<>>
    ELSE <<k % LimbBase>> \o BigFromInt(k \div LimbBase)

\* The value of a number of at most two limbs.
BigToInt(a) ==
    IF a = <<>> THEN 0
    ELSE IF Len(a) = 1 THEN a[1]
    ELSE a[1] + LimbBase * a[2]

Limb(a, i) == IF i <= Len(a) THEN a[i] ELSE 0

\* -1, 0 or 1 as a is below, equal to or above b, from limb i downwards.
RECURSIVE BigCmpFrom(_, _, _)
BigCmpFrom(a, b, i) ==
    IF i = 0 THEN 0
    ELSE IF a[i] < b[i] THEN -1
    ELSE IF a[i] > b[i] THEN 1
    ELSE BigCmpFrom(a, b, i - 1)

BigCmp(a, b) ==
    IF Len(a) < Len(b) THEN -1
    ELSE IF Len(a) > Len(b) THEN 1
    ELSE BigCmpFrom(a, b, Len(a))

RECURSIVE BigAddFrom(_, _, _, _)
BigAddFrom(a, b, i, carry) ==
    IF i > Len(a) /\ i > Len(b)
    THEN IF carry = 0 THEN <<>> ELSE <<carry>>
    ELSE <<(Limb(a, i) + Limb(b, i) + carry) % LimbBase>> \o
         BigAddFrom(a, b, i + 1, (Limb(a, i) + Limb(b, i) + carry) \div LimbBase)

BigAdd(a, b) == BigAddFrom(a, b, 1, 0)

\* a - b for a >= b.
RECURSIVE BigSubFrom(_, _, _, _)
BigSubFrom(a, b, i, borrow) ==
    IF i > Len(a) THEN <<>>
    ELSE IF a[i] - Limb(b, i) - borrow < 0
    THEN <<a[i] - Limb(b, i) - borrow + LimbBase>> \o BigSubFrom(a, b, i + 1, 1)
    ELSE <<a[i] - Limb(b, i) - borrow>> \o BigSubFrom(a, b, i + 1, 0)

BigSub(a, b) == BigNorm(BigSubFrom(a, b, 1, 0))

\* a * k for 0 < k <= LimbBase.
RECURSIVE BigMulSmallFrom(_, _, _, _)
BigMulSmallFrom(a, k, i, carry) ==
    IF i > Len(a) THEN IF carry = 0 THEN <<>> ELSE <<carry>>
    ELSE <<(a[i] * k + carry) % LimbBase>> \o
         BigMulSmallFrom(a, k, i + 1, (a[i] * k + carry) \div LimbBase)

\* a * k for 0 <= k <= LimbBase.
BigMulSmall(a, k) == IF k = 0 THEN <<>> ELSE BigMulSmallFrom(a, k, 1, 0)

\* a * LimbBase^n
BigShlLimbs(a, n) ==
    IF a = <<>> THEN a ELSE [i \in 1..n |-> 0] \o a

RECURSIVE BigMulFrom(_, _, _)
BigMulFrom(a, b, i) ==
    IF i > Len(b) THEN <<>>
    ELSE BigAdd(BigShlLimbs(BigMulSmall(a, b[i]), i - 1), BigMulFrom(a, b, i + 1))

BigMul(a, b) == BigMulFrom(a, b, 1)

\* a * 2^n
BigShl(a, n) ==
    IF n = 0 THEN a
    ELSE BigShlLimbs(BigMulSmall(a, Pow2(n % LimbBits)), n \div LimbBits)

\* Quotient and remainder of a by k, 0 < k <= LimbBase, from limb i
\* downwards with the remainder r carried in; the quotient may have leading
\* zeros.
RECURSIVE BigDivSmallFrom(_, _, _, _)
BigDivSmallLimb(rest, d) == [q |-> Append(rest.q, d), r |-> rest.r]
BigDivSmallFrom(a, k, i, r) ==
    IF i = 0 THEN [q |-> <<>>, r |-> r]
    ELSE BigDivSmallLimb(
             BigDivSmallFrom(a, k, i - 1, (r * LimbBase + a[i]) % k),
             (r * LimbBase + a[i]) \div k)

BigNormQuotient(res) == [q |-> BigNorm(res.q), r |-> res.r]
BigDivModSmall(a, k) == BigNormQuotient(BigDivSmallFrom(a, k, Len(a), 0))

\* floor(a / 2^n)
BigShr(a, n) ==
    IF n \div LimbBits >= Len(a) THEN <<>>
    ELSE BigDivModSmall(SubSeq(a, n \div LimbBits + 1, Len(a)),
                        Pow2(n % LimbBits)).q

RECURSIVE SmallBitLen(_)
SmallBitLen(k) == IF k = 0 THEN 0 ELSE 1 + SmallBitLen(k \div 2)

\* The number of bits of a: 0 for 0.
BigBitLen(a) ==
    IF a = <<>> THEN 0
    ELSE (Len(a) - 1) * LimbBits + SmallBitLen(a[Len(a)])

\* Bit i of a, bit 0 the lowest.
BigBit(a, i) ==
    (Limb(a, i \div LimbBits + 1) \div Pow2(i % LimbBits)) % 2

\* Whether the n lowest bits of a are all 0.
BigLowZero(a, n) ==
    /\ \A i \in 1..Min(n \div LimbBits, Len(a)) : a[i] = 0
    /\ Limb(a, n \div LimbBits + 1) % Pow2(n % LimbBits) = 0

BigOdd(a) == a # <<>> /\ a[1] % 2 = 1

RECURSIVE SmallTrailingZeros(_)
SmallTrailingZeros(k) ==
    IF k % 2 = 1 THEN 0 ELSE 1 + SmallTrailingZeros(k \div 2)

\* The number of 0 bits below the lowest 1 bit of a # 0, from limb i.
RECURSIVE BigTrailingZerosFrom(_, _)
BigTrailingZerosFrom(a, i) ==
    IF a[i] = 0 THEN LimbBits + BigTrailingZerosFrom(a, i + 1)
    ELSE SmallTrailingZeros(a[i])

BigTrailingZeros(a) == BigTrailingZerosFrom(a, 1)

\* The largest d in lo..hi with b * d <= r, for b * lo <= r.
RECURSIVE BigQuotientDigit(_, _, _, _)
BigQuotientDigit(r, b, lo, hi) ==
    IF lo = hi THEN lo
    ELSE IF BigCmp(BigMulSmall(b, (lo + hi + 1) \div 2), r) <= 0
    THEN BigQuotientDigit(r, b, (lo + hi + 1) \div 2, hi)
    ELSE BigQuotientDigit(r, b, lo, (lo + hi + 1) \div 2 - 1)

\* Long division by b, one limb of the dividend at a time: with the
\* quotient q and the remainder of the limbs above, the step for the
\* remainder r2 so far and its quotient digit d.
BigLongDivDigit(b, q, r2, d) ==
    [q |-> BigNorm(<<d>> \o q), r |-> BigSub(r2, BigMulSmall(b, d))]
BigLongDivLimb(b, q, r2) ==
    BigLongDivDigit(b, q, r2, BigQuotientDigit(r2, b, 0, LimbBase - 1))
BigLongDivStep(limb, b, above) ==
    BigLongDivLimb(b, above.q, BigNorm(<<limb>> \o above.r))

\* Quotient and remainder by b # 0 of the number made of the limbs of a
\* from limb i upwards; the Len(b) - 1 highest limbs of a are below b.
RECURSIVE BigLongDiv(_, _, _)
BigLongDiv(a, b, i) ==
    IF i > Len(a) - Len(b) + 1
    THEN [q |-> <<>>, r |-> BigNorm(SubSeq(a, i, Len(a)))]
    ELSE BigLongDivStep(a[i], b,  BigLongDiv(a, b, i + 1))

BigRemainder(res) == [q |-> res.q, r |-> BigFromInt(res.r)]

\* Quotient and remainder of a by b # 0.
BigDivMod(a, b) ==
    IF Len(b) = 1 THEN BigRemainder(BigDivModSmall(a, b[1]))
    ELSE BigLongDiv(a, b, 1)

(***************************************************************************)
(* Python numbers.  An int is [t |-> "int", c |-> "fin", s, m, x |-> 0]    *)
(* of value s * m.  A float, an IEEE 754 double, is [t |-> "float", c, s,  *)
(* m, x]: for c = "fin" the value s * m * 2^x with m odd and below         *)
(* 2^MantissaBits, or m = 0 and x = 0 (s = -1 for -0.0); for c = "inf"     *)
(* the infinity of sign s; for c = "nan" not a number.  The result of an   *)
(* operation that raises is [t |-> "error", c |-> the exception].          *)
(***************************************************************************)
MantissaBits == 53
MinExponent == 0 - 1074     \* of the lowest bit of a double
MaxExponent == 1024         \* every finite double is below 2^MaxExponent

IntNum(k) ==
    [t |-> "int", c |-> "fin", s |-> IF k < 0 THEN -1 ELSE 1,
     m |-> BigFromInt(Abs(k)), x |-> 0]
BigInt(s, m) == [t |-> "int", c |-> "fin", s |-> IF m = <<>> THEN 1 ELSE s,
                 m |-> m, x |-> 0]
Infinity(s) == [t |-> "float", c |-> "inf", s |-> s, m |-> <<>>, x |-> 0]
NaN == [t |-> "float", c |-> "nan", s |-> 1, m |-> <<>>, x |-> 0]
Error(name) == [t |-> "error", c |-> name, s |-> 1, m |-> <<>>, x |-> 0]
ZeroDivisionError == Error("ZeroDivisionError")
OverflowError == Error("OverflowError")

IsError(a) == a.t = "error"
IsNaN(a) == a.t = "float" /\ a.c = "nan"
IsInf(a) == a.t = "float" /\ a.c = "inf"
IsFinite(a) == a.t # "error" /\ a.c = "fin"
IsZero(a) == IsFinite(a) /\ a.m = <<>>

\* The double 0.0 or -0.0.
FloatZero(s) == [t |-> "float", c |-> "fin", s |-> s, m |-> <<>>, x |-> 0]

\* The double of sign s and value m * 2^x, for m # 0 with z zero bits
\* below its lowest 1 bit and at most MantissaBits bits above them.
DoubleOdd(s, m, x, z) ==
    [t |-> "float", c |-> "fin", s |-> s, m |-> BigShr(m, z), x |-> x + z]

\* The double of sign s and value m * 2^x, m of at most MantissaBits bits
\* from its lowest 1 bit upwards.
Double(s, m, x) ==
    IF m = <<>> THEN FloatZero(s) ELSE DoubleOdd(s, m, x, BigTrailingZeros(m))

\* The double of sign s and value k * 2^x, k of at most MantissaBits bits;
\* the infinity when that is not below 2^MaxExponent.
DoubleOrInfinity(s, k, x) ==
    IF x + BigBitLen(k) > MaxExponent THEN Infinity(s) ELSE Double(s, k, x)

\* Rounding to nearest, halfway cases to even: kept are the bits that
\* stay, half the first bit dropped, rest whether anything but zeros
\* follows it.
RoundHalfEven(kept, half, rest) ==
    IF half /\ (rest \/ BigOdd(kept)) THEN BigAdd(kept, <<1>>) ELSE kept

\* RoundToDouble for m of len bits.
RoundBits(s, m, sticky, x, len, shift) ==
    IF shift <= 0 THEN DoubleOrInfinity(s, m, x)
    ELSE DoubleOrInfinity(s,
             RoundHalfEven(BigShr(m, shift), BigBit(m, shift - 1) = 1,
                           sticky \/ ~BigLowZero(m, shift - 1)),
             x + shift)
RoundLen(s, m, sticky, x, len) ==
    RoundBits(s, m, sticky, x, len,
              Max(x + len - MantissaBits, MinExponent) - x)

\* The double nearest to s * (m + f) * 2^x, where f is 0, or when sticky
\* some fraction strictly between 0 and 1; halfway cases go to the even
\* significand; the infinity when that is not below 2^MaxExponent.
RoundToDouble(s, m, sticky, x) == RoundLen(s, m, sticky, x, BigBitLen(m))

\* RoundQuotient when n is shifted by k bits for the division.
RoundDivided(s, qr, lost, x) == RoundToDouble(s, qr.q, qr.r # <<>> \/ lost, x)
RoundShifted(s, n, d, x, k) ==
    RoundDivided(s,
                 BigDivMod(IF k >= 0 THEN BigShl(n, k) ELSE BigShr(n, -k), d),
                 k < 0 /\ ~BigLowZero(n, -k),
                 x - k)

\* The double nearest to s * (n / d) * 2^x, for n # 0 and d # 0: the
\* division is carried to two bits more than a double has.
RoundQuotient(s, n, d, x) ==
    RoundShifted(s, n, d, x, MantissaBits + 2 + BigBitLen(d) - BigBitLen(n))

\* A float result that raises OverflowError instead of being infinite.
FiniteOrOverflow(f) == IF f.c = "inf" THEN OverflowError ELSE f

\* float(a): OverflowError for an int that is too large.
ToFloat(a) ==
    IF a.t # "int" THEN a
    ELSE FiniteOrOverflow(RoundToDouble(a.s, a.m, FALSE, 0))

\* -1, 0, 1 as the finite a is below, equal to or above the finite b.
CmpMagnitude(a, b) ==
    BigCmp(BigShl(a.m, a.x - Min(a.x, b.x)), BigShl(b.m, b.x - Min(a.x, b.x)))

CmpFinite(a, b) ==
    IF a.m = <<>> /\ b.m = <<>> THEN 0
    ELSE IF a.m = <<>> THEN -b.s
    ELSE IF b.m = <<>> THEN a.s
    ELSE IF a.s # b.s THEN a.s
    ELSE a.s * CmpMagnitude(a, b)

\* Python's "a < b" for ints and floats, exact also between the two.
NumLT(a, b) ==
    IF IsNaN(a) \/ IsNaN(b) THEN FALSE
    ELSE IF IsInf(a) THEN a.s = -1 /\ ~(IsInf(b) /\ b.s = -1)
    ELSE IF IsInf(b) THEN b.s = 1
    ELSE CmpFinite(a, b) < 0

\* Python's "a == 0": true of 0, 0.0 and -0.0.
NumIsZero(a) == IsZero(a)

\* sa * am + sb * bm, as sign and magnitude, cmp comparing am with bm.
SignedSum(sa, am, sb, bm, cmp) ==
    IF sa = sb THEN [s |-> sa, m |-> BigAdd(am, bm)]
    ELSE IF cmp > 0 THEN [s |-> sa, m |-> BigSub(am, bm)]
    ELSE IF cmp < 0 THEN [s |-> sb, m |-> BigSub(bm, am)]
    ELSE [s |-> 1, m |-> <<>>]
AlignedSum(sa, am, sb, bm) == SignedSum(sa, am, sb, bm, BigCmp(am, bm))

\* The sum of the finite values a and b, as sign and multiple of 2^x for
\* the lower x of the two.
ExactSum(a, b) ==
    AlignedSum(a.s, BigShl(a.m, a.x - Min(a.x, b.x)),
               b.s, BigShl(b.m, b.x - Min(a.x, b.x)))

RoundSum(t, x) == RoundToDouble(t.s, t.m, FALSE, x)
IntSum(t) == BigInt(t.s, t.m)

\* a + b for two floats, or the exception the conversion to them raised.
FloatAdd(a, b) ==
    IF IsError(a) THEN a
    ELSE IF IsError(b) THEN b
    ELSE IF IsNaN(a) \/ IsNaN(b) THEN NaN
    ELSE IF IsInf(a) THEN (IF IsInf(b) /\ a.s # b.s THEN NaN ELSE a)
    ELSE IF IsInf(b) THEN b
    ELSE IF a.m = <<>> /\ b.m = <<>>
    THEN FloatZero(IF a.s = -1 /\ b.s = -1 THEN -1 ELSE 1)
    ELSE RoundSum(ExactSum(a, b), Min(a.x, b.x))

\* Python's "a + b": exact for two ints; otherwise an int is converted to
\* a float and the floats are added.
NumAdd(a, b) ==
    IF IsError(a) THEN a
    ELSE IF IsError(b) THEN b
    ELSE IF a.t = "int" /\ b.t = "int" THEN IntSum(ExactSum(a, b))
    ELSE FloatAdd(ToFloat(a), ToFloat(b))

\* a / b for two floats, or the exception the conversion to them raised.
FloatDiv(a, b) ==
    IF IsError(a) THEN a
    ELSE IF IsError(b) THEN b
    ELSE IF IsZero(b) THEN ZeroDivisionError
    ELSE IF IsNaN(a) \/ IsNaN(b) THEN NaN
    ELSE IF IsInf(a) THEN (IF IsInf(b) THEN NaN ELSE Infinity(a.s * b.s))
    ELSE IF IsInf(b) THEN FloatZero(a.s * b.s)
    ELSE IF a.m = <<>> THEN FloatZero(a.s * b.s)
    ELSE RoundQuotient(a.s * b.s, a.m, b.m, a.x - b.x)

\* Python's "a / b".  Two ints give the double nearest to the quotient, or
\* OverflowError; otherwise an int is converted to a float and the floats
\* are divided.  ZeroDivisionError for a zero divisor.
TrueDiv(a, b) ==
    IF IsError(a) THEN a
    ELSE IF IsError(b) THEN b
    ELSE IF a.t = "int" /\ b.t = "int"
    THEN IF b.m = <<>> THEN ZeroDivisionError
         ELSE IF a.m = <<>> THEN FloatZero(a.s * b.s)
         ELSE FiniteOrOverflow(RoundQuotient(a.s * b.s, a.m, b.m, 0))
    ELSE FloatDiv(ToFloat(a), ToFloat(b))

\* Python's f"{score:.4f}": the value is converted to a float and rounded
\* to the nearest multiple of 1/Format4, halfway cases to the even one.
\* The text is [c, neg, tt]: for c = "fin" the sign and the number tt of
\* ten-thousandths printed, for c = "inf" the sign, for c = "nan" nothing
\* more; c = "OverflowError" when the conversion raises and there is no
\* text.
Format4 == 10000
FormatScaled(s, n, x) ==
    [c |-> "fin", neg |-> s = -1,
     tt |-> IF x >= 0 THEN BigShl(n, x)
            ELSE RoundHalfEven(BigShr(n, -x), BigBit(n, -x - 1) = 1,
                               ~BigLowZero(n, -x - 1))]
FormatFloat(f) ==
    IF f.c # "fin"
    THEN [c |-> f.c, neg |-> f.c = "inf" /\ f.s = -1, tt |-> <<>>]
    ELSE FormatScaled(f.s, BigMulSmall(f.m, Format4), f.x)
FormatScore(a) == FormatFloat(ToFloat(a))

(***************************************************************************)
(* Dicts                                                                   *)
(***************************************************************************)
Keys(m) == {m[i].k : i \in 1..Len(m)}
HasKey(m, key) == \E i \in 1..Len(m) : m[i].k = key
IndexOf(m, key) == CHOOSE i \in 1..Len(m) : m[i].k = key
Get(m, key) == m[IndexOf(m, key)].v

\* m[key] = value: an existing key keeps its place, a new key goes last.
SetItem(m, key, value) ==
    IF HasKey(m, key)
    THEN [m EXCEPT ![IndexOf(m, key)] = [k |-> key, v |-> value]]
    ELSE Append(m, [k |-> key, v |-> value])

\* sum(m.values()): the values added one after the other, in dict order,
\* to the int 0.
RECURSIVE SumValues(_)
SumValues(m) ==
    IF m = <<>> THEN IntNum(0)
    ELSE NumAdd(SumValues(SubSeq(m, 1, Len(m) - 1)), m[Len(m)].v)

(***************************************************************************)
(* extract_file_change_history                                             *)
(***************************************************************************)
\* The paths in S as a sequence in ascending path order.
RECURSIVE SortedSeq(_)
SortedSeq(S) ==
    IF S = {} THEN <<>>
    ELSE LET f == CHOOSE x \in S : \A y \in S : PathIndex(y) <= PathIndex(x)
         IN  Append(SortedSeq(S \ {f}), f)

\* The paths that commits of the modelled repository touch.
HistPaths == {"a.py", "b.py"}

\* commit.stats.files.keys(): the paths of the commit's diff, which git
\* lists in path order.
TouchedFiles == {SortedSeq(S) : S \in SUBSET HistPaths}

\* The parents a commit made as the n-th can have: at most two of the
\* commits made before it.
ParentSets(n) == {P \in SUBSET (1..(n - 1)) : Cardinality(P) <= 2}

\* The histories of exactly n commits, identified as 1..n.
RECURSIVE HistoriesOf(_)
HistoriesOf(n) ==
    IF n = 0 THEN {<<>>}
    ELSE {Append(h, [files |-> f, parents |-> P]) :
             h \in HistoriesOf(n - 1), f \in TouchedFiles, P \in ParentSets(n)}

\* The histories of the model.
Histories == UNION {HistoriesOf(n) : n \in 0..MaxCommits}

Tips(h) == {c \in DOMAIN h : \A d \in DOMAIN h : c \notin h[d].parents}

\* The commits reachable from the set S of commits by parent links.
RECURSIVE Reachable(_, _)
Reachable(h, S) ==
    LET more == S \cup UNION {h[c].parents : c \in S}
    IN  IF more = S THEN S ELSE Reachable(h, more)

\* An iteration over the commits the refs point at only.
iter_commits_heads_only(h, refs, yielded) == refs \ yielded

\* repo.iter_commits('--all'): git rev-list --all yields every commit
\* reachable from a ref once, and a commit only after a ref names it or a
\* child of it was yielded.  The commits it can yield next, having yielded
\* the set yielded; none when the iteration is over.
iter_commits(h, refs, yielded) ==
    {c \in (DOMAIN h) \ yielded :
        \/ c \in refs
        \/ \E d \in yielded : c \in h[d].parents}

\* file_change_count[file] = file_change_count[file] + 1 of a behaviour
\* that keeps only the entry it writes.
IncrementAlone(m, file) ==
    <<[k |-> file,
       v |-> NumAdd(IF HasKey(m, file) THEN Get(m, file) ELSE IntNum(0),
                    IntNum(1))]>>

\* An increment by two.
IncrementTwice(m, file) ==
    SetItem(m, file,
            NumAdd(IF HasKey(m, file) THEN Get(m, file) ELSE IntNum(0),
                   IntNum(2)))

\* file_change_count[file] += 1 on a defaultdict(int).
Increment(m, file) ==
    SetItem(m, file,
            NumAdd(IF HasKey(m, file) THEN Get(m, file) ELSE IntNum(0),
                   IntNum(1)))

\* The inner loop over the files of one commit.
RECURSIVE CountFiles(_, _)
CountFiles(m, files) ==
    IF files = <<>> THEN m
    ELSE Increment(CountFiles(m, SubSeq(files, 1, Len(files) - 1)),
                   files[Len(files)])

\* The whole of extract_file_change_history on the history h walked in the
\* order w.
RECURSIVE extract_file_change_history(_, _)
extract_file_change_history(h, w) ==
    IF w = <<>> THEN <<>>
    ELSE CountFiles(extract_file_change_history(h, SubSeq(w, 1, Len(w) - 1)),
                    h[w[Len(w)]].files)

(***************************************************************************)
(* calculate_bug_scores                                                    *)
(***************************************************************************)
\* The dict comprehension {file: changes / total for file, changes in
\* m.items()}: [raised, value], the exception of the first division that
\* raises, or "None" and the dict.
Comprehension(scores) ==
    LET bad == {i \in 1..Len(scores) : IsError(scores[i].v)}
    IN  IF bad = {} THEN [raised |-> "None", value |-> scores]
        ELSE [raised |-> scores[CHOOSE i \in bad : \A j \in bad : i <= j].v.c,
              value |-> <<>>]
Quotients(m, total) ==
    Comprehension([i \in 1..Len(m) |->
                      [k |-> m[i].k, v |-> TrueDiv(m[i].v, total)]])

\* calculate_bug_scores without the total_changes == 0 return.
ScoresUnguarded(m, total_changes) ==
    IF IsError(total_changes)
    THEN [raised |-> total_changes.c, value |-> <<>>]
    ELSE Quotients(m, total_changes)
calculate_bug_scores_unguarded(m) == ScoresUnguarded(m, SumValues(m))

\* calculate_bug_scores dividing by the number of files.
ScoresByLen(m, total_changes) ==
    IF IsError(total_changes)
    THEN [raised |-> total_changes.c, value |-> <<>>]
    ELSE IF NumIsZero(total_changes)
    THEN [raised |-> "None", value |-> <<>>]
    ELSE Quotients(m, IntNum(Len(m)))
calculate_bug_scores_by_len(m) == ScoresByLen(m, SumValues(m))

\* calculate_bug_scores from "if total_changes == 0" on.
Scores(m, total_changes) ==
    IF IsError(total_changes)
    THEN [raised |-> total_changes.c, value |-> <<>>]
    ELSE IF NumIsZero(total_changes)
    THEN [raised |-> "None", value |-> <<>>]
    ELSE Quotients(m, total_changes)

\* calculate_bug_scores(m): [raised, value], the exception that leaves the
\* function, or "None" and the dict it returns.
calculate_bug_scores(m) == Scores(m, SumValues(m))

(***************************************************************************)
(* generate_report                                                         *)
(***************************************************************************)
\* list.reverse()
Reversed(s) == [i \in 1..Len(s) |-> s[Len(s) + 1 - i]]

\* The comparison the sort makes: "<" on the keys, the scores x[1].
KeyLT(a, b) == NumLT(a.v, b.v)

\* count_run: the length of the run that s, of two entries or more, starts
\* with; the run is descending when each entry is below the one before it
\* and ascending when none is.
RunLength(s, descending) ==
    CHOOSE n \in 2..Len(s) :
        /\ \A i \in 3..n : KeyLT(s[i], s[i - 1]) = descending
        /\ n = Len(s) \/ KeyLT(s[n + 1], s[n]) # descending

\* The binary search of binarysort for the place of pivot among the
\* entries l..r-1 of s: behind every entry it is not below.
RECURSIVE BinaryPlace(_, _, _, _)
BinaryPlace(s, pivot, l, r) ==
    IF l >= r THEN l
    ELSE IF KeyLT(pivot, s[l + (r - l) \div 2])
    THEN BinaryPlace(s, pivot, l, l + (r - l) \div 2)
    ELSE BinaryPlace(s, pivot, l + (r - l) \div 2 + 1, r)

\* The entry at start moved to place l <= start.
MoveTo(s, start, l) ==
    SubSeq(s, 1, l - 1) \o <<s[start]>> \o SubSeq(s, l, start - 1)
        \o SubSeq(s, start + 1, Len(s))

\* binarysort: the entries from start on are inserted, one after the
\* other, among those in front of them.
RECURSIVE binarysort(_, _)
binarysort(s, start) ==
    IF start > Len(s) THEN s
    ELSE binarysort(MoveTo(s, start, BinaryPlace(s, s[start], 1, start)),
                    start + 1)

\* The first run of n entries, turned round when it is descending, and
\* then the binary insertion of the others.
SortRun(s, descending, n) ==
    binarysort(IF descending
               THEN Reversed(SubSeq(s, 1, n)) \o SubSeq(s, n + 1, Len(s))
               ELSE s,
               n + 1)
SortRuns(s, descending) == SortRun(s, descending, RunLength(s, descending))

\* list.sort() on the keys, for a list of fewer than 64 entries: the
\* whole list is one run of the merge sort, made by count_run and
\* binarysort.  The comparisons decide the result also when they are not
\* an order, as with a score that is nan.
ListSort(s) ==
    IF Len(s) < 2 THEN s ELSE SortRuns(s, KeyLT(s[2], s[1]))

\* sorted(items, key=lambda x: x[1]) without reverse=True.
SortedAscending(m) == ListSort(m)

\* sorted(bug_scores.items(), key=lambda x: x[1], reverse=True): the list
\* is reversed, sorted and reversed again, so that entries of equal score
\* stay in dict order.
SortedByScore(m) == Reversed(ListSort(Reversed(m)))

\* s[:n] dropping one entry too many.
SliceShort(s, n) ==
    IF n >= 0 THEN SubSeq(s, 1, IF n - 1 < Len(s) THEN n - 1 ELSE Len(s))
    ELSE SubSeq(s, 1, IF Len(s) + n > 0 THEN Len(s) + n ELSE 0)

\* s[:n]
Slice(s, n) ==
    IF n >= 0 THEN SubSeq(s, 1, IF n < Len(s) THEN n ELSE Len(s))
    ELSE SubSeq(s, 1, IF Len(s) + n > 0 THEN Len(s) + n ELSE 0)

\* The line "Top {top_n} files most likely to contain defects:".
HeaderLine(n) ==
    [text |-> "Top {top_n} files most likely to contain defects:", top_n |-> n]

\* The line "{i}. {file} (Score: {score:.4f})".
EntryLine(i, file, score) ==
    [text |-> "entry", rank |-> i, file |-> file, score |-> FormatScore(score)]

\* The lines of the loop "for i, (file, score) in enumerate(shown, 1)".
EntryLines(shown) ==
    [i \in 1..Len(shown) |-> EntryLine(i, shown[i].k, shown[i].v)]

\* What generate_report prints: the header, then the entry lines up to the
\* first whose score cannot be formatted, with the exception that raises.
Printed(n, lines) ==
    LET bad == {i \in 1..Len(lines) : lines[i].score.c = "OverflowError"}
        last == IF bad = {} THEN Len(lines)
                ELSE (CHOOSE i \in bad : \A j \in bad : i <= j) - 1
    IN  [printed |-> <<HeaderLine(n)>> \o SubSeq(lines, 1, last),
         raised |-> IF bad = {} THEN "None" ELSE "OverflowError"]

\* generate_report(scores, n): [printed, raised], the lines it prints, the
\* header and then one line per entry with its rank counted from 1, and the
\* exception that leaves it, when a score cannot be formatted, or "None".
generate_report(scores, n) ==
    Printed(n, EntryLines(Slice(SortedByScore(scores), n)))

\* generate_report's default top_n.
DefaultTopN == 10

(***************************************************************************)
(* Actions shared by the specifications                                    *)
(***************************************************************************)
NoHistory == /\ commits = <<>> /\ heads = {} /\ seen = {} /\ commit = 0 /\ fi = 0
NoRepd == /\ repo_files = <<>> /\ repd_scores = <<>>
NoStatic == /\ tree = <<>> /\ ti = 0 /\ invocations = <<>> /\ messages = <<>>

\* The assignment of what calculate_bug_scores returned, or its exception
\* leaving main().
AssignBugScores(result) ==
    IF result.raised # "None"
    THEN /\ raised' = result.raised
         /\ pc' = "raised"
         /\ UNCHANGED bug_scores
    ELSE /\ bug_scores' = result.value
         /\ pc' = "report"
         /\ UNCHANGED raised

\* bug_scores = calculate_bug_scores(file_change_count)
CalculateBugScores ==
    /\ pc = "calc"
    /\ AssignBugScores(calculate_bug_scores(file_change_count))
    /\ UNCHANGED <<commits, heads, seen, commit, fi, file_change_count, top_n,
                   output, repo_files, repd_scores, tree, ti, invocations,
                   messages>>

\* What generate_report printed reaches the output, and its exception
\* leaves main().
Report(result) ==
    /\ output' = result.printed
    /\ raised' = result.raised
    /\ pc' = IF result.raised = "None" THEN "done" ELSE "raised"

\* generate_report(bug_scores, top_n)
GenerateReport ==
    /\ pc = "report"
    /\ Report(generate_report(bug_scores, top_n))
    /\ UNCHANGED <<commits, heads, seen, commit, fi, file_change_count,
                   bug_scores, top_n, repo_files, repd_scores, tree,
                   ti, invocations, messages>>

(***************************************************************************)
(* SpecScores: calculate_bug_scores and generate_report called on any      *)
(* count map and any positive top_n.                                       *)
(***************************************************************************)
\* The dicts with keys among K and values in V, in every insertion order.
Dicts(K, V) ==
    {m \in UNION {[1..n -> [k : K, v : V]] : n \in 0..Cardinality(K)} :
        \A i, j \in 1..Len(m) : i # j => m[i].k # m[j].k}

InitScores ==
    /\ pc = "calc"
    /\ file_change_count \in Dicts(PathSet, {IntNum(c) : c \in 0..MaxCount})
    /\ top_n \in 1..MaxTopN
    /\ bug_scores = <<>>
    /\ output = <<>>
    /\ raised = "None"
    /\ NoHistory /\ NoRepd /\ NoStatic

NextScores == CalculateBugScores \/ GenerateReport

SpecScores == InitScores /\ [][NextScores]_vars

(***************************************************************************)
(* SpecReport: generate_report called on any score map and any positive    *)
(* top_n.                                                                  *)
(***************************************************************************)
\* The scores of the model: 0, 1, 0.25, 0.5, -0.5, the infinity and nan.
ScoreValues ==
    {IntNum(0), IntNum(1), Double(1, <<1>>, -2), Double(1, <<1>>, -1),
     Double(-1, <<1>>, -1), Infinity(1), NaN}

InitReport ==
    /\ pc = "report"
    /\ bug_scores \in Dicts(PathSet, ScoreValues)
    /\ top_n \in 1..MaxTopN
    /\ file_change_count = <<>>
    /\ output = <<>>
    /\ raised = "None"
    /\ NoHistory /\ NoRepd /\ NoStatic

NextReport == GenerateReport

SpecReport == InitReport /\ [][NextReport]_vars

(***************************************************************************)
(* Spec: approach 1 of main(): extract_file_change_history, then           *)
(* calculate_bug_scores, then generate_report with the default top_n.      *)
(***************************************************************************)
Init ==
    /\ pc = "extract"
    /\ commits \in Histories
    /\ heads \in {r \in SUBSET DOMAIN commits : Tips(commits) \subseteq r}
    /\ seen = {}
    /\ commit = 0
    /\ fi = 0
    /\ file_change_count = <<>>
    /\ top_n = DefaultTopN
    /\ bug_scores = <<>>
    /\ output = <<>>
    /\ raised = "None"
    /\ NoRepd /\ NoStatic

\* The inner loop is not running.
BetweenCommits ==
    IF commit = 0 THEN TRUE ELSE fi = Len(commits[commit].files)

\* One pass of the inner loop: file_change_count[file] += 1
ExtractVisitFile ==
    /\ pc = "extract"
    /\ commit # 0
    /\ fi < Len(commits[commit].files)
    /\ file_change_count' =
           Increment(file_change_count, commits[commit].files[fi + 1])
    /\ fi' = fi + 1
    /\ UNCHANGED <<pc, commits, heads, seen, commit, bug_scores, top_n,
                   output, raised, repo_files, repd_scores, tree, ti,
                   invocations, messages>>

\* The outer loop takes the next commit of the iteration.
ExtractNextCommit ==
    /\ pc = "extract"
    /\ BetweenCommits
    /\ \E c \in iter_commits(commits, heads, seen) :
          /\ commit' = c
          /\ seen' = seen \cup {c}
    /\ fi' = 0
    /\ UNCHANGED <<pc, commits, heads, file_change_count, bug_scores,
                   top_n, output, raised, repo_files, repd_scores, tree, ti,
                   invocations, messages>>

\* The iteration is over: return file_change_count
ExtractReturn ==
    /\ pc = "extract"
    /\ BetweenCommits
    /\ iter_commits(commits, heads, seen) = {}
    /\ pc' = "calc"
    /\ seen' = {}
    /\ commit' = 0
    /\ fi' = 0
    /\ UNCHANGED <<commits, heads, file_change_count, bug_scores, top_n,
                   output, raised, repo_files, repd_scores, tree, ti,
                   invocations, messages>>

Next ==
    \/ ExtractVisitFile
    \/ ExtractNextCommit
    \/ ExtractReturn
    \/ CalculateBugScores
    \/ GenerateReport

Spec == Init /\ [][Next]_vars

(***************************************************************************)
(* Properties of calculate_bug_scores and generate_report                  *)
(***************************************************************************)
Calculated == pc \in {"report", "done"}

\* The count of f in the dict m of small counts, 0 for a missing key.
Count(m, f) == IF HasKey(m, f) THEN Get(m, f).s * BigToInt(Get(m, f).m) ELSE 0

\* The entry lines generate_report printed, the header left out.
Lines == IF output = <<>> THEN <<>> ELSE Tail(output)

\* The score of the file of the printed line i, as the score map has it.
ScoreOfLine(i) == Get(bug_scores, Lines[i].file)

\* Whether the number a lies within 10^-9 of 1.
NearOne(a) ==
    IF ~IsFinite(a) \/ a.s = -1 THEN FALSE
    ELSE LET e == Min(a.x, 0)
             am == BigShl(a.m, a.x - e)
             one == BigShl(<<1>>, -e)
             diff == IF BigCmp(am, one) >= 0 THEN BigSub(am, one)
                     ELSE BigSub(one, am)
         IN  BigCmp(BigMul(diff, BigFromInt(10 ^ 9)), one) <= 0

\* Whether score is a float that is raw / total up to the precision of a
\* double, for raw >= 0 and total > 0:
\* |score * total - raw| <= raw * 2^-MantissaBits.
IsQuotient(score, raw, total) ==
    /\ score.t = "float"
    /\ score.c = "fin"
    /\ score.s = 1
    /\ LET e == Min(score.x + total.x, raw.x)
           st == BigShl(BigMul(score.m, total.m), score.x + total.x - e)
           r == BigShl(raw.m, raw.x - e)
           diff == IF BigCmp(st, r) >= 0 THEN BigSub(st, r) ELSE BigSub(r, st)
       IN  BigCmp(BigShl(diff, MantissaBits), r) <= 0

\* C1, as claimed: for every non-empty count map, a map of zero counts
\* included, the values calculate_bug_scores returns sum to 1 within 1e-9.
C1_SumIsOneForEveryNonEmptyMap ==
    (Calculated /\ file_change_count # <<>>) =>
        NearOne(SumValues(bug_scores))

\* C1, amended: for every count map whose counts total more than 0, the
\* values calculate_bug_scores returns sum to 1 within 1e-9.
C1_SumIsOneWhenTotalPositive ==
    (Calculated /\ NumLT(IntNum(0), SumValues(file_change_count))) =>
        NearOne(SumValues(bug_scores))

C1_Witness ==
    /\ pc = "report"
    /\ Len(file_change_count) = 3
    /\ SumValues(file_change_count) = IntNum(3)
    /\ \E i \in 1..3 : file_change_count[i].v = IntNum(0)
    /\ NearOne(SumValues(bug_scores))

\* C4: calculate_bug_scores never raises; when the raw values total 0 it
\* returns the empty map, and when they total more than 0 it returns, for
\* exactly the keys of its input and in their order, the raw value divided
\* by the total.
C4_EmptyOnZeroTotalElseQuotients ==
    /\ pc # "raised"
    /\ raised = "None"
    /\ Calculated =>
        LET total == SumValues(file_change_count)
        IN  IF NumIsZero(total)
            THEN bug_scores = <<>>
            ELSE /\ Len(bug_scores) = Len(file_change_count)
                 /\ \A i \in 1..Len(file_change_count) :
                       /\ bug_scores[i].k = file_change_count[i].k
                       /\ IsQuotient(bug_scores[i].v, file_change_count[i].v,
                                     total)

C4_Witness ==
    /\ pc = "report"
    /\ Len(file_change_count) = 2
    /\ NumIsZero(SumValues(file_change_count))
    /\ bug_scores = <<>>

\* C2, as claimed: when generate_report has printed, any two lines of equal
\* score stand in ascending order of their file paths.
C2_TiesInAscendingPathOrder ==
    pc = "done" =>
        \A i, j \in 1..Len(Lines) :
            (i < j /\ ScoreOfLine(i) = ScoreOfLine(j)) =>
                PathLess(Lines[i].file, Lines[j].file)

\* Whether the printed score t is at most the printed score u, neither
\* being nan: an infinity, or a sign and a number of ten-thousandths.
FormattedLE(t, u) ==
    IF t.c = "inf" THEN t.neg \/ (u.c = "inf" /\ ~u.neg)
    ELSE IF u.c = "inf" THEN ~u.neg
    ELSE IF t.tt = <<>> THEN u.tt = <<>> \/ ~u.neg
    ELSE IF u.tt = <<>> THEN t.neg
    ELSE IF t.neg # u.neg THEN t.neg
    ELSE IF t.neg THEN BigCmp(t.tt, u.tt) >= 0
    ELSE BigCmp(t.tt, u.tt) <= 0

\* No score of the map is nan.
NoNaN(m) == \A i \in 1..Len(m) : ~IsNaN(m[i].v)

\* The lines are the ranks 1, 2, 3, ... in that order, each with a file of
\* the map and its score as formatted.
RankedLines ==
    /\ output # <<>>
    /\ Head(output) = HeaderLine(top_n)
    /\ \A i \in 1..Len(Lines) :
          /\ Lines[i].rank = i
          /\ HasKey(bug_scores, Lines[i].file)
          /\ Lines[i].score = FormatScore(ScoreOfLine(i))

C8_PrintsMinOfTopNAndSize ==
    /\ pc \in {"report", "done"} => raised = "None"
    /\ (pc = "done" /\ top_n > 0) =>
        /\ Len(Lines) =
              (IF top_n < Len(bug_scores) THEN top_n ELSE Len(bug_scores))
        /\ \A i, j \in 1..Len(Lines) : i # j => Lines[i].file # Lines[j].file
        /\ {Lines[i].file : i \in 1..Len(Lines)} \subseteq Keys(bug_scores)
        /\ top_n >= Len(bug_scores) =>
              {Lines[i].file : i \in 1..Len(Lines)} = Keys(bug_scores)

C8_Witness ==
    /\ pc = "done"
    /\ Len(bug_scores) = 2
    /\ top_n > Len(bug_scores)
    /\ Len(Lines) = 2

(***************************************************************************)
(* Properties of extract_file_change_history                               *)
(***************************************************************************)
\* The dict m as a mapping, its insertion order forgotten.
AsMap(m) == [f \in Keys(m) |-> Get(m, f)]

\* The orders in which the commits of h can be visited.
VisitOrders(h) ==
    {w \in [DOMAIN h -> DOMAIN h] : \A i, j \in DOMAIN h : i # j => w[i] # w[j]}

\* C5: the mapping extract_file_change_history returns is the mapping it
\* returns for every other order of visiting the same commits.
C5_CountsIndependentOfVisitOrder ==
    pc = "calc" =>
        \A w \in VisitOrders(commits) :
            AsMap(extract_file_change_history(commits, w))
                = AsMap(file_change_count)

C5_Witness ==
    /\ pc = "calc"
    /\ Len(commits) = 3
    /\ \E w \in VisitOrders(commits) :
          extract_file_change_history(commits, w) # file_change_count

\* C6: when the walk is over, the count of every file is the number of
\* distinct commits that touch it, whatever the parent links and however
\* many refs reach a commit; files no commit touches have no entry.
C6_CountIsNumberOfCommitsTouching ==
    pc = "calc" =>
        /\ \A f \in PathSet :
              Count(file_change_count, f) =
                  Cardinality({c \in DOMAIN commits :
                      \E i \in 1..Len(commits[c].files) :
                          commits[c].files[i] = f})
        /\ \A i \in 1..Len(file_change_count) :
              /\ file_change_count[i].v.t = "int"
              /\ Count(file_change_count, file_change_count[i].k) >= 1

C6_Witness ==
    /\ pc = "calc"
    /\ \E c \in DOMAIN commits : Cardinality(commits[c].parents) = 2
    /\ \E c \in DOMAIN commits, g, h \in heads :
          /\ g # h
          /\ c \in Reachable(commits, {g})
          /\ c \in Reachable(commits, {h})
          /\ commits[c].files # <<>>
    /\ Count(file_change_count, "a.py") = 3

\* C10: a step of the aggregation loop adds exactly 1 to the count of one
\* file, the file of the commit it visits, and leaves every other count as
\* it was; no step of the pass lowers a count, and every key of the mapping
\* has a count of at least 1.
C10_CountsOnlyGrowByOne ==
    [][pc = "extract" =>
        /\ \A f \in PathSet :
              Count(file_change_count', f) >= Count(file_change_count, f)
        /\ \A i \in 1..Len(file_change_count') :
              Count(file_change_count', file_change_count'[i].k) >= 1
        /\ fi' = fi + 1 =>
              LET file == commits[commit].files[fi']
              IN  /\ Count(file_change_count', file)
                        = Count(file_change_count, file) + 1
                  /\ \A g \in PathSet \ {file} :
                        Count(file_change_count', g)
                            = Count(file_change_count, g)
        /\ fi' # fi + 1 => file_change_count' = file_change_count]_vars

C10_Witness ==
    /\ pc = "extract"
    /\ Len(file_change_count) = 2
    /\ Count(file_change_count, file_change_count[1].k) = 2
    /\ fi = 1

(***************************************************************************)
(* SpecRepd: approach 2 of main(): repd_defect_prediction from the loop    *)
(* that draws the scores, then the report main() prints for them.          *)
(***************************************************************************)
\* random.random(): a double k * 2^-MantissaBits with
\* 0 <= k < 2^MantissaBits.  The model draws the multiples of 2^-RandBits,
\* the least positive value and the largest value.
RandomValues ==
    {Double(1, BigFromInt(k), -RandBits) : k \in 0..(Pow2(RandBits) - 1)}
        \cup {Double(1, <<1>>, -MantissaBits),
              Double(1, BigSub(BigShl(<<1>>, MantissaBits), <<1>>),
                     -MantissaBits)}

\* The relative paths of the code files the scan of the working tree found,
\* each once, in the order os.walk met them.
RepoFileLists ==
    {s \in UNION {[1..n -> PathSet] : n \in 0..Cardinality(PathSet)} :
        \A i, j \in 1..Len(s) : i # j => s[i] # s[j]}

\* The normalization at the end of repd_defect_prediction: [raised, value],
\* the exception that leaves it, or "None" and the dict returned.
repd_normalize_by(scores, total_score) ==
    IF IsError(total_score)
    THEN [raised |-> total_score.c, value |-> <<>>]
    ELSE IF NumLT(IntNum(0), total_score)
    THEN Quotients(scores, total_score)
    ELSE [raised |-> "None", value |-> scores]
repd_normalize(scores) == repd_normalize_by(scores, SumValues(scores))

InitRepd ==
    /\ pc = "repd_assign"
    /\ repo_files \in RepoFileLists
    /\ repd_scores = <<>>
    /\ file_change_count = <<>>
    /\ top_n = DefaultTopN
    /\ bug_scores = <<>>
    /\ output = <<>>
    /\ raised = "None"
    /\ messages = <<>>
    /\ NoHistory
    /\ tree = <<>> /\ ti = 0 /\ invocations = <<>>

\* One pass of "for file in repo_files: repd_scores[file] = random.random()"
RepdAssign ==
    /\ pc = "repd_assign"
    /\ Len(repd_scores) < Len(repo_files)
    /\ \E r \in RandomValues :
          repd_scores' =
              SetItem(repd_scores, repo_files[Len(repd_scores) + 1], r)
    /\ UNCHANGED <<pc, commits, heads, seen, commit, fi, file_change_count,
                   bug_scores, top_n, output, raised, repo_files, tree, ti,
                   invocations, messages>>

\* The loop is over.
RepdAssigned ==
    /\ pc = "repd_assign"
    /\ Len(repd_scores) = Len(repo_files)
    /\ pc' = "repd_normalize"
    /\ UNCHANGED <<commits, heads, seen, commit, fi, file_change_count,
                   bug_scores, top_n, output, raised, repo_files,
                   repd_scores, tree, ti, invocations, messages>>

\* The assignment of the normalized scores, or the exception leaving
\* repd_defect_prediction.
AssignRepdScores(result) ==
    IF result.raised # "None"
    THEN /\ raised' = result.raised
         /\ pc' = "raised"
         /\ UNCHANGED repd_scores
    ELSE /\ repd_scores' = result.value
         /\ pc' = "repd_returned"
         /\ UNCHANGED raised

\* total_score = sum(...); if total_score > 0: repd_scores = {...}; return
RepdNormalize ==
    /\ pc = "repd_normalize"
    /\ AssignRepdScores(repd_normalize(repd_scores))
    /\ UNCHANGED <<commits, heads, seen, commit, fi, file_change_count,
                   bug_scores, top_n, output, repo_files, tree, ti,
                   invocations, messages>>

\* main(): if repd_scores: generate_report(repd_scores)
ReportRepd ==
    /\ pc = "repd_returned"
    /\ repd_scores # <<>>
    /\ bug_scores' = repd_scores
    /\ Report(generate_report(repd_scores, top_n))
    /\ UNCHANGED <<commits, heads, seen, commit, fi, file_change_count, top_n,
                   repo_files, repd_scores, tree, ti, invocations,
                   messages>>

\* main(): else: print("REPD model not implemented yet.")
ReportNoRepd ==
    /\ pc = "repd_returned"
    /\ repd_scores = <<>>
    /\ messages' = Append(messages, [text |-> "REPD model not implemented yet."])
    /\ pc' = "done"
    /\ UNCHANGED <<commits, heads, seen, commit, fi, file_change_count,
                   bug_scores, top_n, output, raised, repo_files,
                   repd_scores, tree, ti, invocations>>

NextRepd ==
    \/ RepdAssign
    \/ RepdAssigned
    \/ RepdNormalize
    \/ ReportRepd
    \/ ReportNoRepd

SpecRepd == InitRepd /\ [][NextRepd]_vars

\* C3, as claimed: the normalization step of repd_defect_prediction turns
\* every raw score map into what calculate_bug_scores returns for it, the
\* empty map when the raw values total 0.
C3_RepdNormalizesAsCalculateBugScores ==
    [][pc = "repd_normalize" =>
          repd_scores' = calculate_bug_scores(repd_scores).value]_vars

(***************************************************************************)
(* SpecStatic: run_static_analysis                                         *)
(***************************************************************************)
\* File names are sequences of characters.
SufJava == <<".", "j", "a", "v", "a">>
SufCpp == <<".", "c", "p", "p">>
SufH == <<".", "h">>
SufC == <<".", "c">>
SufPy == <<".", "p", "y">>
ModuleInfoJava ==
    <<"m", "o", "d", "u", "l", "e", "-", "i", "n", "f", "o">> \o SufJava

\* The names a working tree of the model can hold.
FileNames ==
    { <<"A">> \o SufJava,
      ModuleInfoJava,
      <<"x">> \o ModuleInfoJava,
      <<"a">> \o SufCpp,
      <<"a">> \o SufH,
      <<"a">> \o SufC,
      <<"a">> \o SufPy }

\* The working trees: up to MaxTree files, each name once, in the order
\* os.walk lists them.
Trees ==
    {t \in UNION {[1..n -> FileNames] : n \in 0..MaxTree} :
        \A i, j \in 1..Len(t) : i # j => t[i] # t[j]}

\* str.endswith
EndsWith(name, suffix) ==
    /\ Len(name) >= Len(suffix)
    /\ SubSeq(name, Len(name) - Len(suffix) + 1, Len(name)) = suffix

\* The branch of the if/elif chain the file takes: the tool run on it and
\* the name the messages give the tool, or "none" for the final else.
ToolFor(file) ==
    IF EndsWith(file, SufJava) /\ ~EndsWith(file, ModuleInfoJava)
    THEN [tool |-> "spotbugs", label |-> "SpotBugs"]
    ELSE IF EndsWith(file, SufCpp) \/ EndsWith(file, SufH)
    THEN [tool |-> "cppcheck", label |-> "cppcheck"]
    ELSE IF EndsWith(file, SufC)
    THEN [tool |-> "cppcheck", label |-> "cppcheck"]
    ELSE [tool |-> "none", label |-> "none"]

\* How a call of subprocess.run(..., check=False) can end: it returns with
\* exit status 0 and some or no stdout, it returns with another exit
\* status, it raises an exception of class Exception (the binary is
\* missing, the output cannot be decoded, ...), or it raises an exception
\* outside that class (KeyboardInterrupt when the run is interrupted while
\* the tool runs).  No timeout is passed: a tool that never ends is a call
\* that never ends.
Outcomes == {"exit0_stdout", "exit0_silent", "nonzero", "exception", "interrupt"}

\* The invocation without the try/except around it.
AfterRunUnprotected(label, file, outcome) ==
    IF outcome = "interrupt"
    THEN [printed |-> <<>>, raised |-> "KeyboardInterrupt"]
    ELSE IF outcome = "exception"
    THEN [printed |-> <<>>, raised |-> "Exception"]
    ELSE IF outcome = "nonzero"
    THEN [printed |-> <<[text |-> "failed", label |-> label, file |-> file]>>,
          raised |-> "None"]
    ELSE IF outcome = "exit0_stdout"
    THEN [printed |-> <<[text |-> "stdout", label |-> label, file |-> file]>>,
          raised |-> "None"]
    ELSE [printed |-> <<>>, raised |-> "None"]

\* The try/except Exception around one invocation, once the call has
\* ended: what it prints and the exception that leaves it.
AfterRun(label, file, outcome) ==
    IF outcome = "interrupt"
    THEN [printed |-> <<>>, raised |-> "KeyboardInterrupt"]
    ELSE IF outcome = "exception"
    THEN [printed |-> <<[text |-> "Error running", label |-> label,
                         file |-> file]>>,
          raised |-> "None"]
    ELSE IF outcome = "nonzero"
    THEN [printed |-> <<[text |-> "failed", label |-> label, file |-> file]>>,
          raised |-> "None"]
    ELSE IF outcome = "exit0_stdout"
    THEN [printed |-> <<[text |-> "stdout", label |-> label, file |-> file]>>,
          raised |-> "None"]
    ELSE [printed |-> <<>>, raised |-> "None"]

InitStatic ==
    /\ pc = "static_begin"
    /\ tree \in Trees
    /\ ti = 0
    /\ invocations = <<>>
    /\ messages = <<>>
    /\ raised = "None"
    /\ file_change_count = <<>>
    /\ top_n = DefaultTopN
    /\ bug_scores = <<>>
    /\ output = <<>>
    /\ NoHistory /\ NoRepd

\* The header line, before the scan.
StaticBegin ==
    /\ pc = "static_begin"
    /\ messages' = Append(messages,
           [text |-> "=== Running Static Code Analysis to Identify Bugs/Defects ==="])
    /\ pc' = "static"
    /\ UNCHANGED <<commits, heads, seen, commit, fi, file_change_count,
                   bug_scores, top_n, output, raised, repo_files,
                   repd_scores, tree, ti, invocations>>

\* One pass of the loop for a file no branch takes: continue
StaticSkip ==
    /\ pc = "static"
    /\ ti < Len(tree)
    /\ ToolFor(tree[ti + 1]).tool = "none"
    /\ ti' = ti + 1
    /\ UNCHANGED <<pc, commits, heads, seen, commit, fi, file_change_count,
                   bug_scores, top_n, output, raised, repo_files,
                   repd_scores, tree, invocations, messages>>

\* A pass of the loop for a file a branch takes, up to the call: the
\* "Running" line is printed and subprocess.run starts the tool and waits
\* for it.
StaticStartTool ==
    /\ pc = "static"
    /\ ti < Len(tree)
    /\ LET file == tree[ti + 1]
           t == ToolFor(file)
       IN  /\ t.tool # "none"
           /\ messages' = Append(messages,
                  [text |-> "Running", label |-> t.label, file |-> file])
           /\ invocations' = Append(invocations,
                  [tool |-> t.tool, file |-> file, outcome |-> "running"])
    /\ pc' = "static_running"
    /\ UNCHANGED <<commits, heads, seen, commit, fi, file_change_count,
                   bug_scores, top_n, output, raised, repo_files,
                   repd_scores, tree, ti>>

\* The rest of the pass: the call ends and the try/except deals with how it
\* ended.
StaticToolEnded ==
    /\ pc = "static_running"
    /\ LET file == tree[ti + 1]
           t == ToolFor(file)
       IN  \E outcome \in Outcomes :
              LET after == AfterRun(t.label, file, outcome)
              IN  /\ invocations' =
                         [invocations EXCEPT ![Len(invocations)].outcome = outcome]
                  /\ messages' = messages \o after.printed
                  /\ raised' = after.raised
                  /\ IF after.raised = "None"
                     THEN /\ ti' = ti + 1
                          /\ pc' = "static"
                     ELSE /\ ti' = ti
                          /\ pc' = "raised"
    /\ UNCHANGED <<commits, heads, seen, commit, fi, file_change_count,
                   bug_scores, top_n, output, repo_files, repd_scores, tree>>

\* The scan is over: the function returns.
StaticReturn ==
    /\ pc = "static"
    /\ ti = Len(tree)
    /\ pc' = "returned"
    /\ UNCHANGED <<commits, heads, seen, commit, fi, file_change_count,
                   bug_scores, top_n, output, raised, repo_files,
                   repd_scores, tree, ti, invocations, messages>>

NextStatic ==
    \/ StaticBegin
    \/ StaticSkip
    \/ StaticStartTool
    \/ StaticToolEnded
    \/ StaticReturn

SpecStatic == InitStatic /\ [][NextStatic]_vars

\* The files the scan is to submit, and the tool of each.
Eligible(file) ==
    \/ EndsWith(file, SufJava) /\ ~EndsWith(file, ModuleInfoJava)
    \/ EndsWith(file, SufCpp)
    \/ EndsWith(file, SufH)
    \/ EndsWith(file, SufC)

ToolOf(file) == IF EndsWith(file, SufJava) THEN "spotbugs" ELSE "cppcheck"

Failed(outcome) == outcome \in {"nonzero", "exception"}

\* Every eligible file the scan has passed was submitted to its tool once,
\* and every invocation that failed has its message.
SubmittedAndReported ==
    /\ \A i \in 1..ti :
          Eligible(tree[i]) =>
              Cardinality({k \in 1..Len(invocations) :
                  /\ invocations[k].file = tree[i]
                  /\ invocations[k].tool = ToolOf(tree[i])}) = 1
    /\ \A k \in 1..Len(invocations) :
          Failed(invocations[k].outcome) =>
              \E j \in 1..Len(messages) :
                  /\ messages[j].text =
                        (IF invocations[k].outcome = "nonzero"
                         THEN "failed" ELSE "Error running")
                  /\ messages[j].file = invocations[k].file
    /\ pc = "returned" => ti = Len(tree)

\* C9: a failure of a tool on one file, a non-zero exit status or an
\* exception the invocation raises, never aborts run_static_analysis: the
\* failure has its message, no exception of the invocation leaves the
\* function, every eligible file the scan has passed was submitted to its
\* tool once, and the function returns only when it has passed every file
\* of the tree.  The function is left early only when the run itself is
\* interrupted while a tool runs, which is no failure of the tool: then
\* with KeyboardInterrupt, at the invocation under way, the last one made.
C9_ToolFailureNeverAbortsTheScan ==
    /\ raised \in {"None", "KeyboardInterrupt"}
    /\ (pc = "raised") = (raised # "None")
    /\ \A k \in 1..Len(invocations) :
          /\ Failed(invocations[k].outcome) =>
                \/ k < Len(invocations)
                \/ pc \in {"static", "returned"}
          /\ invocations[k].outcome = "interrupt" =>
                /\ k = Len(invocations)
                /\ pc = "raised"
    /\ pc = "raised" =>
          /\ invocations # <<>>
          /\ invocations[Len(invocations)].outcome = "interrupt"
    /\ SubmittedAndReported

C9_Witness ==
    /\ pc = "returned"
    /\ Len(invocations) = 3
    /\ invocations[1].outcome = "exception"
    /\ invocations[2].outcome = "nonzero"
    /\ invocations[3].tool = "spotbugs"

====
